---- MODULE Spec2Model ----
(***************************************************************************)
(* Retrieval-augmented chatbot backend: the /chat and /chat/stream         *)
(* endpoints (main.py), the generation layer (llm_service.py), the safety  *)
(* gate (guardrails.py), the context builder (rag.py) and the file-based   *)
(* conversation store (conversation_service.py).                           *)
(*                                                                         *)
(* Texts are sequences of tokens.  A token is one character (" ", "a") or  *)
(* an indivisible run of non-blank characters ("[Source : ").  "NL" is the *)
(* newline character.  Identifiers are tuples; None is the empty tuple.    *)
(* Requests run in worker threads, so the steps of two requests interleave *)
(* between any two accesses to the store's files.                          *)
(***************************************************************************)
EXTENDS Integers, Sequences, FiniteSets, TLC

VARIABLES
    rails,      \* guardrails.rails: "ok", or "none" when the constructor failed
    convFile,   \* conversations.json: conversation id -> Conversation
    msgFile,    \* messages.json: the list of Message
    rq,         \* the requests: the locals of chat / chat_stream / generate()
    rag,        \* a call of simple_chunk or build_context (rag.py): its locals
    up          \* an upload: the locals of upload_file and what it sent to the index

vars == <<rails, convFile, msgFile, rq, rag, up>>

\* ------------------------------------------------------------ bounds
\* The largest number of events one generation stream delivers.
MaxDeltas == 2
\* The largest length of a text the batch generation call returns.
MaxLen == 2

\* The largest length of an enumerated text handed to simple_chunk.
MaxText == 5
\* The largest max_tokens_chars handed to simple_chunk.
MaxChars == 5
\* The largest number of matches handed to build_context.
MaxMatches == 2
MaxStored == 9

\* ------------------------------------------------------------ values
Reqs == {"r1", "r2"}

None == <<>>
EmptyStr == <<"">>
Truthy(x) == x # None /\ x # EmptyStr

Whitespace == {" ", "NL"}
Alphabet == {"a", " "}
Frags == {<<>>} \cup {<<c>> : c \in Alphabet}
Texts == UNION {[1..n -> Alphabet] : n \in 0..MaxLen}
Queries == {<<"q">>, <<"w">>}
Kinds == {"chat", "stream"}

ConvId(r) == <<"conv", r>>
MsgId(r, role) == <<"msg", r, role>>
RespId(r, mode) == <<"resp", r, mode>>
MissingId == <<"conv", "missing">>
\* datetime.now() in the call that creates the object `id`: an instant of its own.
Now(id) == <<"at", id>>

EmptyDict == [k \in {} |-> k]
Put(d, k, v) == [x \in (DOMAIN d) \cup {k} |-> IF x = k THEN v ELSE d[x]]
Get(d, k, default) == IF k \in DOMAIN d THEN d[k] ELSE default

\* ------------------------------------------------------------ text helpers
RECURSIVE lstrip(_)
lstrip(s) == IF s # <<>> /\ Head(s) \in Whitespace THEN lstrip(Tail(s)) ELSE s

RECURSIVE rstrip(_)
rstrip(s) ==
    IF s # <<>> /\ s[Len(s)] \in Whitespace THEN rstrip(SubSeq(s, 1, Len(s) - 1)) ELSE s

\* str.strip()
strip(s) == rstrip(lstrip(s))

\* sub in s
Contains(sub, s) ==
    \E i \in 0..(Len(s) - Len(sub)) : SubSeq(s, i + 1, i + Len(sub)) = sub

RECURSIVE join(_, _)
join(sep, parts) ==
    IF parts = <<>> THEN <<>>
    ELSE IF Len(parts) = 1 THEN parts[1]
    ELSE parts[1] \o sep \o join(sep, Tail(parts))

TitleLimit == 50
\* req.query[:50] + "..." if len(req.query) > 50 else req.query
title_of(query) ==
    IF Len(query) > TitleLimit THEN SubSeq(query, 1, TitleLimit) \o <<"...">> ELSE query

\* ------------------------------------------------------------ safety gate
\* What one call of the gate's backing service does: the answer carries no
\* blocking pattern ("pass"), carries one ("block"), or the call raises
\* ("fail").  With self.rails = None no call is made ("uninit").
GateOutcomes == IF rails = "none" THEN {"uninit"} ELSE {"pass", "block", "fail"}
\* A gate that answers every call with "safe".
GateSafe == {"pass"}

MsgNotInit == <<"Guardrails not initialized">>
MsgCheckFailed == <<"Guardrails check failed: ", "rails error">>
MsgInputBlocked == <<"Query is out of scope or inappropriate">>
MsgInputSafe == <<"Query is safe and within scope">>
MsgOutputBlocked == <<"Response contains inappropriate content">>
MsgOutputSafe == <<"Response is safe">>

\* check_input_safety whose except clause lets the query through.
check_input_safety_fail_open(o) ==
    CASE o = "uninit" -> [is_safe |-> FALSE, message |-> MsgNotInit]
      [] o = "block" -> [is_safe |-> FALSE, message |-> MsgInputBlocked]
      [] o = "fail" -> [is_safe |-> TRUE, message |-> MsgCheckFailed]
      [] o = "pass" -> [is_safe |-> TRUE, message |-> MsgInputSafe]

check_input_safety(o) ==
    CASE o = "uninit" -> [is_safe |-> FALSE, message |-> MsgNotInit]
      [] o = "block" -> [is_safe |-> FALSE, message |-> MsgInputBlocked]
      [] o = "fail" -> [is_safe |-> FALSE, message |-> MsgCheckFailed]
      [] o = "pass" -> [is_safe |-> TRUE, message |-> MsgInputSafe]

check_output_safety(o) ==
    CASE o = "uninit" -> [is_safe |-> FALSE, message |-> MsgNotInit]
      [] o = "block" -> [is_safe |-> FALSE, message |-> MsgOutputBlocked]
      [] o = "fail" -> [is_safe |-> FALSE, message |-> MsgCheckFailed]
      [] o = "pass" -> [is_safe |-> TRUE, message |-> MsgOutputSafe]

SafeResponse ==
    <<"I'm here to assist you with the Foundational Learning Program at Petronas. For questions outside this program, you might want to explore other resources or speak with the appropriate professionals.">>
get_safe_response(original_response) == SafeResponse

\* ------------------------------------------------------------ context builder
MatchLists ==
    { <<>>,
      << [metadata |-> [filename |-> "doc.txt", text |-> <<"hi">>]] >> }

\* build_part without the test of rag.py 25: a fragment for every match.
build_part_keeps_empty(m) ==
    LET got == Get(m, "metadata", EmptyDict)
        meta == IF got = None THEN EmptyDict ELSE got
        filename == Get(meta, "filename", "unknown-filename")
        text == Get(meta, "text", <<>>)
    IN << <<"[Source : ", filename, "] ">> \o text >>

build_part(m) ==
    LET got == Get(m, "metadata", EmptyDict)
        meta == IF got = None THEN EmptyDict ELSE got
        filename == Get(meta, "filename", "unknown-filename")
        text == Get(meta, "text", <<>>)
    IN IF text # <<>> THEN << <<"[Source : ", filename, "] ">> \o text >> ELSE <<>>

RECURSIVE build_parts(_)
build_parts(matches) ==
    IF matches = <<>> THEN <<>> ELSE build_part(Head(matches)) \o build_parts(Tail(matches))

build_context(matches) == join(<<"NL", "NL">>, build_parts(matches))

\* ------------------------------------------------------------ generation layer
ErrEmbed == <<"embedding call failed">>
ErrQuery == <<"vector index query failed">>
ErrGenerate == <<"generation call failed">>
ErrStore == <<"conversation store i/o failed">>
ErrNotFound == <<"404: ", "Conversation not found">>
ErrInternal == <<"Internal Server Error">>

\* Some call of the gate can answer "safe".
GatePasses(gate) == \E o \in gate : check_input_safety(o).is_safe

\* generate_response: every result the batch call can return when the service
\* answers with a text of `texts` and the gate with an outcome of `gate`.  calls: how often the generation service
\* was invoked; raw: response.output_text; blocked: the layer's input check
\* refused; flagged: the layer's output check rejected the answer.
generate_response(r, texts, gate) ==
    { [answer |-> check_input_safety(o).message, response_id |-> EmptyStr,
       calls |-> 0, raw |-> <<>>, blocked |-> TRUE, flagged |-> FALSE]
        : o \in {x \in gate : ~check_input_safety(x).is_safe} }
    \cup
    { [answer |-> IF check_output_safety(v).is_safe
                  THEN strip(t) ELSE get_safe_response(strip(t)),
       response_id |-> RespId(r, "batch"),
       calls |-> 1, raw |-> t, blocked |-> FALSE,
       flagged |-> ~check_output_safety(v).is_safe]
        : t \in texts, v \in {x \in gate : GatePasses(gate)} }

\* ------------------------------------------------------------ state
NoMsg == [id |-> None, conversation_id |-> None, role |-> "none", content |-> <<>>,
          response_id |-> None, parent_message_id |-> None, created_at |-> None]

\* A request before it arrives.  input_safe, inner_check and outer_check record
\* the verdicts of the gate at main.py 67/129, llm_service.py 294/363 and
\* main.py 103/196; batch records how the batch call ended; gone: the client
\* of the stream has disconnected while generate() was running; dangling: a
\* message of the request reached messages.json while its conversation was
\* not in the store.
NewReq ==
    [pc |-> "idle", kind |-> "none", query |-> <<>>, conversation_id |-> None,
     embedCalls |-> 0, queryCalls |-> 0, genCalls |-> 0,
     input_safe |-> "unchecked", context |-> <<>>,
     previous_response_id |-> None, history_text |-> <<>>,
     conversation |-> None, created |-> FALSE, phase |-> "none",
     message |-> NoMsg, messages |-> <<>>, conversations |-> EmptyDict,
     user_message |-> NoMsg, assistant_message |-> NoMsg,
     answer |-> <<>>, llm_full |-> <<>>, llm_response_id |-> None, nDeltas |-> 0,
     stream_failed |-> FALSE, batch |-> "none", batch_answer |-> <<>>, batch_raw |-> <<>>,
     inner_check |-> "none", outer_check |-> "none",
     done_response_id |-> None, response_id |-> None,
     full_response |-> <<>>, final_content |-> <<>>,
     events |-> <<>>, status |-> 0, stream |-> "none", body |-> <<>>,
     gone |-> FALSE, dangling |-> FALSE, fragments |-> <<>>]

\* The store after one earlier streamed turn of a request "r0".
SeedConversations ==
    Put(EmptyDict, ConvId("r0"),
        [id |-> ConvId("r0"), title |-> <<"q">>, created_at |-> Now(ConvId("r0")), updated_at |-> Now(MsgId("r0", "assistant"))])

SeedMessages ==
    << [id |-> MsgId("r0", "user"), conversation_id |-> ConvId("r0"), role |-> "user",
        content |-> <<"q">>, response_id |-> None, parent_message_id |-> None,
        created_at |-> Now(MsgId("r0", "user"))],
       [id |-> MsgId("r0", "assistant"), conversation_id |-> ConvId("r0"),
        role |-> "assistant", content |-> <<"a">>, response_id |-> RespId("r0", "stream"),
        parent_message_id |-> MsgId("r0", "user"),
        created_at |-> Now(MsgId("r0", "assistant"))] >>

\* No call of rag.py under way.
RagIdle == [op |-> "none", pc |-> "idle"]

\* No upload under way.
UpIdle == [pc |-> "idle"]

\* One request, served over an empty store or over the store of an earlier turn.
Init ==
    /\ rag = RagIdle
    /\ up = UpIdle
    /\ rails \in {"ok", "none"}
    /\ \/ convFile = EmptyDict /\ msgFile = <<>>
       \/ convFile = SeedConversations /\ msgFile = SeedMessages
    /\ rq = [r \in Reqs |-> NewReq]

\* Two requests over an empty store.
InitConc ==
    /\ rag = RagIdle
    /\ up = UpIdle
    /\ rails = "ok"
    /\ convFile = EmptyDict
    /\ msgFile = <<>>
    /\ rq = [r \in Reqs |-> NewReq]

Upd(r, rec) == rq' = [rq EXCEPT ![r] = rec]

\* ------------------------------------------------------------ events of the stream
InfoEvent(cid, uid) == [type |-> "info", conversation_id |-> cid, user_message_id |-> uid]
ContentEvent(c) == [type |-> "content", content |-> c, done |-> FALSE]
DoneEvent(mid, rid) ==
    [type |-> "done", content |-> <<>>, done |-> TRUE, message_id |-> mid, response_id |-> rid]
ErrorEvent(detail) == [type |-> "error", error |-> detail]

\* on_content without the test of main.py 185.
on_content_forwards_empty(rec, content) ==
    [rec EXCEPT !.full_response = @ \o content,
                !.events = Append(@, ContentEvent(content))]

\* main.py 183-189: the loop body of generate() for a content event.
on_content(rec, content) ==
    IF content # <<>>
    THEN [rec EXCEPT !.full_response = @ \o content,
                     !.events = Append(@, ContentEvent(content))]
    ELSE rec

\* generate_response_stream yields a content event (llm_service.py 243, 291,
\* 299, 308) and the loop of generate() takes it.
yield_content(rec, content) ==
    on_content([rec EXCEPT !.fragments = Append(@, content)], content)

\* generate() is closed at the yield it is suspended at (main.py 173, 189, 210,
\* 214) because its client is gone: GeneratorExit is no Exception, so the
\* handler at main.py 211 lets it pass and nothing more of generate() runs.
generator_closed(rec) ==
    [rec EXCEPT !.stream = "abandoned", !.gone = TRUE,
                !.messages = <<>>, !.conversations = EmptyDict, !.message = NoMsg,
                !.pc = "done"]

\* on_stream_error with the except clause inside the loop: the loop goes on to
\* the done branch after the error event.
on_stream_error_in_loop(rec, detail) ==
    [rec EXCEPT !.events = Append(@, ErrorEvent(detail)),
                !.messages = <<>>, !.conversations = EmptyDict, !.message = NoMsg,
                !.pc = "stream_done"]

\* main.py 211-214: the except branch of generate().
on_stream_error(rec, detail) ==
    IF rec.gone THEN generator_closed(rec)
    ELSE [rec EXCEPT !.events = Append(@, ErrorEvent(detail)), !.stream = "complete",
                     !.messages = <<>>, !.conversations = EmptyDict, !.message = NoMsg,
                     !.pc = "done"]

\* blocked_reply without its return statement: the pipeline goes on.
blocked_reply_no_return(rec, input_msg) ==
    [rec EXCEPT !.events = <<ErrorEvent(<<"Input blocked by guardrails: ">> \o input_msg)>>,
                !.status = 200, !.pc = "embed"]

\* blocked_reply that records the refused query as the first message of a new
\* conversation before it answers.
blocked_reply_recorded(rec, input_msg) ==
    [rec EXCEPT !.events = <<ErrorEvent(<<"Input blocked by guardrails: ">> \o input_msg)>>,
                !.status = 200, !.stream = "open", !.pc = "cc_load"]

\* main.py 66-71 / 128-133: the blocked reply.
blocked_reply(rec, input_msg) ==
    [rec EXCEPT !.events = <<ErrorEvent(<<"Input blocked by guardrails: ">> \o input_msg)>>,
                !.status = 200, !.stream = "complete", !.pc = "done"]

\* main.py 122-123 (chat) and 217-218 (chat_stream): the endpoint's handler.
endpoint_error(rec, detail) ==
    [rec EXCEPT !.status = 500,
                !.body = IF rec.kind = "chat" THEN detail ELSE ErrInternal,
                !.messages = <<>>, !.conversations = EmptyDict, !.message = NoMsg,
                !.pc = "done"]

\* An exception leaving generate() outside its try block: the response ends
\* without a terminal event.
generator_crash(rec) ==
    [rec EXCEPT !.stream = "aborted",
                !.messages = <<>>, !.conversations = EmptyDict, !.message = NoMsg,
                !.pc = "done"]

\* main.py 152-216: chat_stream returns the StreamingResponse, generate() starts.
start_stream(rec) ==
    [rec EXCEPT !.status = 200, !.stream = "open",
                !.pc = IF Truthy(rec.conversation_id) THEN "get_conversation" ELSE "cc_load"]

\* ------------------------------------------------------------ the request
\* Conversation ids a client has been told by a metadata event or a ChatResponse.
ToldIds ==
    { rq[s].conversation : s \in {x \in Reqs :
        \/ rq[x].kind = "chat" /\ rq[x].status = 200 /\ rq[x].stream = "none"
        \/ rq[x].kind = "stream" /\ rq[x].user_message # NoMsg} }

\* A request arrives: ChatRequest(query, conversation_id) (schemas.py 5-8).
ChatRequest(r, kinds, queries, cids) ==
    /\ rq[r].pc = "idle"
    /\ \E kind \in kinds, query \in queries, cid \in cids :
         Upd(r, [rq[r] EXCEPT !.pc = "input_check", !.kind = kind, !.query = query,
                              !.conversation_id = cid])
    /\ UNCHANGED <<up, rag, rails, convFile, msgFile>>

\* main.py 67-71, 129-133
InputCheck(r, gate) ==
    /\ rq[r].pc = "input_check"
    /\ \E o \in gate :
         LET res == check_input_safety(o) IN
         IF ~res.is_safe
         THEN Upd(r, blocked_reply([rq[r] EXCEPT !.input_safe = "unsafe"], res.message))
         ELSE Upd(r, [rq[r] EXCEPT !.input_safe = "safe", !.pc = "embed"])
    /\ UNCHANGED <<up, rag, rails, convFile, msgFile>>

\* main.py 74, 135; llm_service.py 215-222
Embed(r) ==
    /\ rq[r].pc = "embed"
    /\ Upd(r, [rq[r] EXCEPT !.embedCalls = @ + 1, !.pc = "retrieve"])
    /\ UNCHANGED <<up, rag, rails, convFile, msgFile>>

\* llm_service.py 217: client.embeddings.create raises.
EmbedFails(r) ==
    /\ rq[r].pc = "embed"
    /\ Upd(r, endpoint_error([rq[r] EXCEPT !.embedCalls = @ + 1], ErrEmbed))
    /\ UNCHANGED <<up, rag, rails, convFile, msgFile>>

\* The branch on req.conversation_id after retrieval (main.py 82, 144).
after_retrieve(rec) ==
    IF Truthy(rec.conversation_id) THEN [rec EXCEPT !.pc = "last_response_id"]
    ELSE IF rec.kind = "chat" THEN [rec EXCEPT !.pc = "generate"]
    ELSE start_stream(rec)

\* main.py 77-78, 138-139
Retrieve(r, matchLists) ==
    /\ rq[r].pc = "retrieve"
    /\ \E matches \in matchLists :
         Upd(r, after_retrieve([rq[r] EXCEPT !.queryCalls = @ + 1,
                                             !.context = build_context(matches)]))
    /\ UNCHANGED <<up, rag, rails, convFile, msgFile>>

\* vector_db.py 22: _collection.query raises.
RetrieveFails(r) ==
    /\ rq[r].pc = "retrieve"
    /\ Upd(r, endpoint_error([rq[r] EXCEPT !.queryCalls = @ + 1], ErrQuery))
    /\ UNCHANGED <<up, rag, rails, convFile, msgFile>>

\* ------------------------------------------------------------ conversation store
\* load_conversations / load_messages: a file that is being rewritten is empty
\* or cut short, and both readers answer an unreadable file with the empty store.
load_conversations == convFile
load_messages == msgFile

RECURSIVE select_conversation(_, _)
select_conversation(messages, cid) ==
    IF messages = <<>> THEN <<>>
    ELSE (IF Head(messages).conversation_id = cid THEN <<Head(messages)>> ELSE <<>>)
         \o select_conversation(Tail(messages), cid)

get_conversation_messages(cid) == select_conversation(load_messages, cid)

RECURSIVE last_response_id_earliest(_)
\* last_response_id over the messages in append order instead of reversed.
last_response_id_earliest(messages) ==
    IF messages = <<>> THEN None
    ELSE LET m == Head(messages) IN
         IF m.role = "assistant" /\ Truthy(m.response_id) THEN m.response_id
         ELSE last_response_id_earliest(Tail(messages))

RECURSIVE last_response_id(_)
last_response_id(messages) ==
    IF messages = <<>> THEN None
    ELSE LET m == messages[Len(messages)] IN
         IF m.role = "assistant" /\ Truthy(m.response_id) THEN m.response_id
         ELSE last_response_id(SubSeq(messages, 1, Len(messages) - 1))

get_last_assistant_response_id(cid) == last_response_id(get_conversation_messages(cid))

HistoryLimit == 5

\* recent_of taking the oldest messages instead of the newest.
recent_of_oldest(past) ==
    IF Len(past) > HistoryLimit THEN SubSeq(past, 1, HistoryLimit) ELSE past

recent_of(past) ==
    IF Len(past) > HistoryLimit THEN SubSeq(past, Len(past) - HistoryLimit + 1, Len(past))
    ELSE past

history_of(past) ==
    join(<<"NL">>,
         [i \in 1..Len(recent_of(past)) |->
            <<IF recent_of(past)[i].role = "user" THEN "User: " ELSE "Assistant: ">>
            \o recent_of(past)[i].content])

StorePcs == {"last_response_id", "history", "get_conversation",
             "cc_load", "cc_open", "cc_dump",
             "am_load", "am_open", "am_dump", "am_conversations", "am_conv_open", "am_conv_dump"}

\* add_message returns to its caller: main.py 99-103 and 108-121 (chat),
\* 170-173 and 201-210 (generate()).  The locals of add_message are gone.
after_add_message(rec) ==
    LET back == [rec EXCEPT !.messages = <<>>, !.conversations = EmptyDict, !.message = NoMsg]
    IN
    IF rec.phase = "user"
    THEN LET u == [back EXCEPT !.user_message = rec.message] IN
         IF rec.kind = "chat" THEN [u EXCEPT !.pc = "output_guard"]
         ELSE IF rec.gone THEN generator_closed(u)
         ELSE [u EXCEPT !.pc = "stream_open",
                        !.events = Append(@, InfoEvent(rec.conversation, rec.message.id))]
    ELSE LET a == [back EXCEPT !.assistant_message = rec.message, !.pc = "done"] IN
         IF rec.kind = "chat"
         THEN [a EXCEPT !.status = 200,
                        !.body = [answer |-> rec.final_content, message_id |-> rec.message.id,
                                  conversation_id |-> rec.conversation,
                                  response_id |-> rec.response_id]]
         ELSE IF rec.gone THEN generator_closed(a)
         ELSE [a EXCEPT !.events = Append(@, DoneEvent(rec.message.id, rec.response_id)),
                        !.stream = "complete"]

\* main.py 83, 145; conversation_service.py 122-131
LastResponseId(r) ==
    /\ rq[r].pc = "last_response_id"
    /\ Upd(r, [rq[r] EXCEPT
                 !.previous_response_id = get_last_assistant_response_id(rq[r].conversation_id),
                 !.pc = IF rq[r].kind = "chat" THEN "generate" ELSE "history"])
    /\ UNCHANGED <<up, rag, rails, convFile, msgFile>>

\* History reading the store after the user message of the turn was appended.
History_sees_own_turn(r) ==
    /\ rq[r].pc = "history"
    /\ LET own == [id |-> MsgId(r, "user"), conversation_id |-> rq[r].conversation_id,
                   role |-> "user", content |-> rq[r].query, response_id |-> None,
                   parent_message_id |-> None, created_at |-> Now(MsgId(r, "user"))]
       IN Upd(r, start_stream([rq[r] EXCEPT
                   !.history_text = history_of(select_conversation(
                                        Append(load_messages, own), rq[r].conversation_id))]))
    /\ UNCHANGED <<up, rag, rails, convFile, msgFile>>

\* main.py 146-150
History(r) ==
    /\ rq[r].pc = "history"
    /\ Upd(r, start_stream([rq[r] EXCEPT
                 !.history_text = history_of(get_conversation_messages(rq[r].conversation_id))]))
    /\ UNCHANGED <<up, rag, rails, convFile, msgFile>>

\* main.py 86
Generate(r, texts, gate) ==
    /\ rq[r].pc = "generate"
    /\ \E b \in generate_response(r, texts, gate) :
         Upd(r, [rq[r] EXCEPT !.genCalls = @ + b.calls,
                              !.answer = b.answer, !.response_id = b.response_id,
                              !.batch = "returned", !.batch_answer = b.answer,
                              !.batch_raw = b.raw,
                              !.inner_check = IF b.blocked THEN "none"
                                              ELSE IF b.flagged THEN "unsafe" ELSE "safe",
                              !.pc = IF Truthy(rq[r].conversation_id)
                                     THEN "get_conversation" ELSE "cc_load"])
    /\ UNCHANGED <<up, rag, rails, convFile, msgFile>>

\* llm_service.py 359: client.responses.create raises inside generate_response.
GenerateFails(r, gate) ==
    /\ rq[r].pc = "generate"
    /\ GatePasses(gate)
    /\ Upd(r, endpoint_error([rq[r] EXCEPT !.genCalls = @ + 1, !.batch = "raised"],
                             ErrGenerate))
    /\ UNCHANGED <<up, rag, rails, convFile, msgFile>>

\* main.py 89-92, 158-163; conversation_service.py 74-77
GetConversation(r) ==
    /\ rq[r].pc = "get_conversation"
    /\ IF rq[r].conversation_id \in DOMAIN load_conversations
       THEN Upd(r, [rq[r] EXCEPT !.conversation = rq[r].conversation_id,
                                 !.phase = "user", !.pc = "am_load"])
       ELSE IF rq[r].kind = "chat" THEN Upd(r, endpoint_error(rq[r], ErrNotFound))
       ELSE Upd(r, [rq[r] EXCEPT !.pc = "cc_load"])
    /\ UNCHANGED <<up, rag, rails, convFile, msgFile>>

\* conversation_service.py 58-69: the new Conversation, put into the loaded dict.
CreateConversationLoad(r) ==
    /\ rq[r].pc = "cc_load"
    /\ Upd(r, [rq[r] EXCEPT
                 !.conversation = ConvId(r), !.created = TRUE,
                 !.conversations =
                     Put(load_conversations, ConvId(r),
                         [id |-> ConvId(r), title |-> title_of(rq[r].query),
                          created_at |-> Now(ConvId(r)),
                          updated_at |-> Now(ConvId(r))]),
                 !.pc = "cc_open"])
    /\ UNCHANGED <<up, rag, rails, convFile, msgFile>>

\* conversation_service.py 31: open(CONVERSATIONS_FILE, 'w') empties the file.
CreateConversationOpen(r) ==
    /\ rq[r].pc = "cc_open"
    /\ convFile' = EmptyDict
    /\ Upd(r, [rq[r] EXCEPT !.pc = "cc_dump"])
    /\ UNCHANGED <<up, rag, rails, msgFile>>

\* conversation_service.py 32, 72 and the caller's next line (main.py 99, 170)
CreateConversationDump(r) ==
    /\ rq[r].pc = "cc_dump"
    /\ convFile' = rq[r].conversations
    /\ Upd(r, [rq[r] EXCEPT !.conversations = EmptyDict, !.phase = "user", !.pc = "am_load"])
    /\ UNCHANGED <<up, rag, rails, msgFile>>

\* new_message that stores what has been streamed so far without the
\* threading fields of the finished answer.
new_message_partial(r, rec) ==
    [id |-> MsgId(r, rec.phase), conversation_id |-> rec.conversation,
     role |-> rec.phase,
     content |-> IF rec.phase = "user" THEN rec.query ELSE rec.llm_full,
     response_id |-> None, parent_message_id |-> None,
     created_at |-> Now(MsgId(r, rec.phase))]

\* new_message called for the assistant message as it is for the user message
\* (main.py 99, 170): without parent_message_id.
new_message_unparented(r, rec) ==
    [id |-> MsgId(r, rec.phase), conversation_id |-> rec.conversation,
     role |-> rec.phase,
     content |-> IF rec.phase = "user" THEN rec.query ELSE rec.final_content,
     response_id |-> IF rec.phase = "user" THEN None ELSE rec.response_id,
     parent_message_id |-> None,
     created_at |-> Now(MsgId(r, rec.phase))]

\* conversation_service.py 92-103 with the arguments of main.py 99, 108-114,
\* 170 and 201-207: the Message that add_message builds.
new_message(r, rec) ==
    [id |-> MsgId(r, rec.phase), conversation_id |-> rec.conversation,
     role |-> rec.phase,
     content |-> IF rec.phase = "user" THEN rec.query ELSE rec.final_content,
     response_id |-> IF rec.phase = "user" THEN None ELSE rec.response_id,
     parent_message_id |-> IF rec.phase = "user" THEN None ELSE rec.user_message.id,
     created_at |-> Now(MsgId(r, rec.phase))]

\* conversation_service.py 92-106
AddMessageLoad(r) ==
    /\ rq[r].pc = "am_load"
    /\ LET rec == rq[r]
           message == new_message(r, rec)
       IN Upd(r, [rec EXCEPT !.message = message,
                             !.messages = Append(load_messages, message),
                             !.pc = "am_open"])
    /\ UNCHANGED <<up, rag, rails, convFile, msgFile>>

\* conversation_service.py 53: open(MESSAGES_FILE, 'w') empties the file.
AddMessageOpen(r) ==
    /\ rq[r].pc = "am_open"
    /\ msgFile' = <<>>
    /\ Upd(r, [rq[r] EXCEPT !.pc = "am_dump"])
    /\ UNCHANGED <<up, rag, rails, convFile>>

\* The conversation is in conversations.json, or in the dict that a writer
\* which has opened the file is about to dump into it.
conversation_exists(cid) ==
    \/ cid \in DOMAIN convFile
    \/ \E x \in Reqs : /\ rq[x].pc \in {"cc_dump", "am_conv_dump"}
                       /\ cid \in DOMAIN rq[x].conversations

\* conversation_service.py 54
AddMessageDump(r) ==
    /\ rq[r].pc = "am_dump"
    /\ msgFile' = rq[r].messages
    /\ Upd(r, [rq[r] EXCEPT !.messages = <<>>, !.pc = "am_conversations",
                            !.dangling = @ \/ ~conversation_exists(rq[r].message.conversation_id)])
    /\ UNCHANGED <<up, rag, rails, convFile>>

\* conversation_service.py 110-115
AddMessageConversations(r) ==
    /\ rq[r].pc = "am_conversations"
    /\ LET rec == rq[r]
           conversations == load_conversations
           cid == rec.message.conversation_id
       IN IF cid \in DOMAIN conversations
          THEN Upd(r, [rec EXCEPT
                         !.conversations =
                             [conversations EXCEPT ![cid].updated_at = rec.message.created_at],
                         !.pc = "am_conv_open"])
          ELSE Upd(r, after_add_message(rec))
    /\ UNCHANGED <<up, rag, rails, convFile, msgFile>>

\* conversation_service.py 31 (from add_message)
AddMessageConvOpen(r) ==
    /\ rq[r].pc = "am_conv_open"
    /\ convFile' = EmptyDict
    /\ Upd(r, [rq[r] EXCEPT !.pc = "am_conv_dump"])
    /\ UNCHANGED <<up, rag, rails, msgFile>>

\* conversation_service.py 32, 115 and the caller's continuation
AddMessageConvDump(r) ==
    /\ rq[r].pc = "am_conv_dump"
    /\ convFile' = rq[r].conversations
    /\ Upd(r, after_add_message(rq[r]))
    /\ UNCHANGED <<up, rag, rails, msgFile>>

\* The exception of a failed store call on its way out: main.py 122-123 and
\* 217-218 at the endpoint, 211-214 inside the try of generate(), and out of
\* generate() before the try.
store_error(rec) ==
    IF rec.kind = "chat" \/ rec.pc \in {"last_response_id", "history"}
    THEN endpoint_error(rec, ErrStore)
    ELSE IF rec.phase = "assistant" THEN on_stream_error(rec, ErrStore)
    ELSE generator_crash(rec)

\* An I/O error (OSError) raised by open() or json.dump() in a store call.
StoreError(r) ==
    /\ rq[r].pc \in StorePcs
    /\ Upd(r, store_error(rq[r]))
    /\ UNCHANGED <<up, rag, rails, convFile, msgFile>>

\* main.py 102-105
OutputGuard(r, gate) ==
    /\ rq[r].pc = "output_guard"
    /\ \E o \in gate :
         LET safe == check_output_safety(o).is_safe IN
         Upd(r, [rq[r] EXCEPT
                   !.final_content = IF safe THEN rq[r].answer
                                     ELSE get_safe_response(rq[r].answer),
                   !.outer_check = IF safe THEN "safe" ELSE "unsafe",
                   !.phase = "assistant", !.pc = "am_load"])
    /\ UNCHANGED <<up, rag, rails, convFile, msgFile>>

\* ------------------------------------------------------------ generate_response_stream
\* The done event reaching the loop of generate() (main.py 190).
yield_done(rec, response_id) ==
    [rec EXCEPT !.done_response_id = response_id, !.nDeltas = 0, !.pc = "stream_done"]

\* llm_service.py 238-243: the layer's own input check blocks.
StreamBlocked(r, gate) ==
    /\ rq[r].pc = "stream_open"
    /\ \E o \in gate :
         /\ ~check_input_safety(o).is_safe
         /\ Upd(r, yield_done(yield_content(rq[r], check_input_safety(o).message), None))
    /\ UNCHANGED <<up, rag, rails, convFile, msgFile>>

\* llm_service.py 238, 276-281: the check passes and the streaming call is made.
StreamOpen(r, gate) ==
    /\ rq[r].pc = "stream_open"
    /\ GatePasses(gate)
    /\ Upd(r, [rq[r] EXCEPT !.genCalls = @ + 1, !.llm_response_id = RespId(r, "stream"),
                            !.pc = "streaming"])
    /\ UNCHANGED <<up, rag, rails, convFile, msgFile>>

\* llm_service.py 277, 304-305: client.responses.create raises.
StreamOpenFails(r, gate) ==
    /\ rq[r].pc = "stream_open"
    /\ GatePasses(gate)
    /\ Upd(r, [rq[r] EXCEPT !.genCalls = @ + 1, !.stream_failed = TRUE, !.pc = "fallback"])
    /\ UNCHANGED <<up, rag, rails, convFile, msgFile>>

\* llm_service.py 283-291 with main.py 185-189: one event of the stream.
StreamDelta(r, frags) ==
    /\ rq[r].pc = "streaming"
    /\ rq[r].nDeltas < MaxDeltas
    /\ \E delta \in frags :
         LET rec == [rq[r] EXCEPT !.nDeltas = @ + 1] IN
         IF delta # <<>>
         THEN Upd(r, yield_content([rec EXCEPT !.llm_full = @ \o delta], delta))
         ELSE Upd(r, rec)
    /\ UNCHANGED <<up, rag, rails, convFile, msgFile>>

\* llm_service.py 283, 304-305: iterating the stream raises.
StreamBreaks(r) ==
    /\ rq[r].pc = "streaming"
    /\ Upd(r, [rq[r] EXCEPT !.stream_failed = TRUE, !.nDeltas = 0, !.pc = "fallback"])
    /\ UNCHANGED <<up, rag, rails, convFile, msgFile>>

\* llm_service.py 293-302: the stream is exhausted.
StreamEnd(r, gate) ==
    /\ rq[r].pc = "streaming"
    /\ \E o \in gate :
         LET safe == check_output_safety(o).is_safe
             rec == [rq[r] EXCEPT !.inner_check = IF safe THEN "safe" ELSE "unsafe"]
         IN Upd(r, yield_done(
                     IF safe THEN rec
                     ELSE yield_content(rec, <<"NL", "NL">> \o get_safe_response(rec.llm_full)),
                     rec.llm_response_id))
    /\ UNCHANGED <<up, rag, rails, convFile, msgFile>>

\* llm_service.py 306-309: the batch call answers in place of the stream.
StreamFallback(r, texts, gate) ==
    /\ rq[r].pc = "fallback"
    /\ \E b \in generate_response(r, texts, gate) :
         Upd(r, yield_done(
                  yield_content([rq[r] EXCEPT !.genCalls = @ + b.calls,
                                           !.batch = "returned", !.batch_answer = b.answer,
                                           !.batch_raw = b.raw],
                             b.answer),
                  b.response_id))
    /\ UNCHANGED <<up, rag, rails, convFile, msgFile>>

\* llm_service.py 307 raising in its turn, caught at main.py 211-214.
StreamFallbackFails(r, gate) ==
    /\ rq[r].pc = "fallback"
    /\ GatePasses(gate)
    /\ Upd(r, on_stream_error([rq[r] EXCEPT !.genCalls = @ + 1, !.batch = "raised"],
                              ErrGenerate))
    /\ UNCHANGED <<up, rag, rails, convFile, msgFile>>

\* main.py 190-198
StreamDone(r, gate) ==
    /\ rq[r].pc = "stream_done"
    /\ \E o \in gate :
         LET safe == check_output_safety(o).is_safe IN
         Upd(r, [rq[r] EXCEPT
                   !.response_id = rq[r].done_response_id,
                   !.final_content = IF safe THEN rq[r].full_response
                                     ELSE get_safe_response(rq[r].full_response),
                   !.outer_check = IF safe THEN "safe" ELSE "unsafe",
                   !.phase = "assistant", !.pc = "am_load"])
    /\ UNCHANGED <<up, rag, rails, convFile, msgFile>>

\* The client of a stream disconnects before the terminal event.  The server
\* stops iterating generate(): suspended at a yield (the generation layer is
\* between two events) it is closed there; inside a call of the store it runs
\* on to its next yield and is closed at that one.
GeneratorPcs == {"stream_open", "streaming", "fallback", "stream_done"}

ClientDisconnect(r) ==
    /\ rq[r].kind = "stream" /\ rq[r].stream = "open" /\ ~rq[r].gone
    /\ rq[r].pc # "done"
    /\ IF rq[r].pc \in GeneratorPcs
       THEN Upd(r, generator_closed(rq[r]))
       ELSE Upd(r, [rq[r] EXCEPT !.gone = TRUE])
    /\ UNCHANGED <<up, rag, rails, convFile, msgFile>>

\* ------------------------------------------------------------ rag.py: simple_chunk
\* Characters of an uploaded text: two letters, the space and the newline.
ChunkAlphabet == {"a", "b", " ", "NL"}

\* Two paragraphs of ten characters with a blank line between them, and three
\* paragraphs of which the last has a line break inside.
ExampleTexts ==
    { [i \in 1..10 |-> "a"] \o <<"NL", "NL">> \o [i \in 1..10 |-> "b"],
      <<"a", "NL", " ", "NL", "b", "NL", "NL", "NL", "a", "a", "b", "NL", "b", " ">> }

ChunkTexts == (UNION {[1..n -> ChunkAlphabet] : n \in 0..MaxText}) \cup ExampleTexts

Least(S) == CHOOSE x \in S : \A y \in S : x <= y
Greatest(S) == CHOOSE x \in S : \A y \in S : x >= y

\* re.split(r"\n\s*\n", text): the pieces between the matches, found from left
\* to right, each match starting at the first newline that has a second one
\* after whitespace only and, \s* being greedy, ending at the last such one.
RECURSIVE re_split(_)
re_split(text) ==
    LET n == Len(text)
        ends(i) == {j \in (i + 1)..n :
                      text[j] = "NL" /\ \A k \in (i + 1)..(j - 1) : text[k] \in Whitespace}
        starts == {i \in 1..n : text[i] = "NL" /\ ends(i) # {}}
    IN IF starts = {} THEN <<text>>
       ELSE LET i == Least(starts)
                j == Greatest(ends(i))
            IN <<SubSeq(text, 1, i - 1)>> \o re_split(SubSeq(text, j + 1, n))

RECURSIVE strip_all(_)
\* [p.strip() for p in pieces if p.strip()]
strip_all(pieces) ==
    IF pieces = <<>> THEN <<>>
    ELSE (IF strip(Head(pieces)) # <<>> THEN <<strip(Head(pieces))>> ELSE <<>>)
         \o strip_all(Tail(pieces))

\* rag.py 6
paragraphs(text) == strip_all(re_split(text))

\* A call simple_chunk(text, max_tokens_chars) arrives.
ChunkCall ==
    /\ rag.pc = "idle"
    /\ \E text \in ChunkTexts, max_tokens_chars \in 0..MaxChars :
         rag' = [op |-> "simple_chunk", pc |-> "split", text |-> text,
                 max_tokens_chars |-> max_tokens_chars]
    /\ UNCHANGED <<up, rails, convFile, msgFile, rq>>

\* rag.py 6-7.  group and groups record which paragraphs went into buf and
\* into each chunk.
ChunkSplit ==
    /\ rag.op = "simple_chunk" /\ rag.pc = "split"
    /\ rag' = [op |-> "simple_chunk", pc |-> "loop", text |-> rag.text,
               max_tokens_chars |-> rag.max_tokens_chars,
               paras |-> paragraphs(rag.text), i |-> 1,
               chunks |-> <<>>, buf |-> <<>>, groups |-> <<>>, group |-> <<>>]
    /\ UNCHANGED <<up, rails, convFile, msgFile, rq>>

\* The loop body with the flush left out: every paragraph is added to buf.
chunk_step_no_flush(c) ==
    LET para == c.paras[c.i]
    IN [c EXCEPT !.buf = @ \o (IF @ # <<>> THEN <<"NL">> ELSE <<>>) \o para,
                 !.group = Append(@, para), !.i = @ + 1]

\* The loop body with the first statement of the loop as the only one: the
\* paragraph that does not fit is dropped with the flush.
chunk_step_drops(c) ==
    LET para == c.paras[c.i]
        over == Len(c.buf) + Len(para) + 1 > c.max_tokens_chars
    IN IF over
       THEN [c EXCEPT !.chunks = IF c.buf # <<>> THEN Append(@, strip(c.buf)) ELSE @,
                      !.groups = IF c.buf # <<>> THEN Append(@, c.group) ELSE @,
                      !.buf = <<>>, !.group = <<>>, !.i = @ + 1]
       ELSE [c EXCEPT !.buf = @ \o (IF @ # <<>> THEN <<"NL">> ELSE <<>>) \o para,
                      !.group = Append(@, para), !.i = @ + 1]

\* The loop body that cuts a paragraph longer than max_tokens_chars to size.
chunk_step_splits(c) ==
    LET para == c.paras[c.i]
        over == Len(c.buf) + Len(para) + 1 > c.max_tokens_chars
        flush == over /\ c.buf # <<>>
        buf == IF flush THEN <<>> ELSE c.buf
        group == IF flush THEN <<>> ELSE c.group
        cut == IF Len(para) > c.max_tokens_chars /\ c.max_tokens_chars > 0
               THEN SubSeq(para, 1, c.max_tokens_chars) ELSE para
    IN [c EXCEPT !.chunks = IF flush THEN Append(@, strip(c.buf)) ELSE @,
                 !.groups = IF flush THEN Append(@, c.group) ELSE @,
                 !.buf = buf \o (IF buf # <<>> THEN <<"NL">> ELSE <<>>) \o cut,
                 !.group = Append(group, cut),
                 !.i = @ + 1]

\* rag.py 8-13: one iteration of the loop.
chunk_step(c) ==
    LET para == c.paras[c.i]
        over == Len(c.buf) + Len(para) + 1 > c.max_tokens_chars
        flush == over /\ c.buf # <<>>
        buf == IF flush THEN <<>> ELSE c.buf
        group == IF flush THEN <<>> ELSE c.group
    IN [c EXCEPT !.chunks = IF flush THEN Append(@, strip(c.buf)) ELSE @,
                 !.groups = IF flush THEN Append(@, c.group) ELSE @,
                 !.buf = buf \o (IF buf # <<>> THEN <<"NL">> ELSE <<>>) \o para,
                 !.group = Append(group, para),
                 !.i = @ + 1]

ChunkPara ==
    /\ rag.op = "simple_chunk" /\ rag.pc = "loop"
    /\ rag.i <= Len(rag.paras)
    /\ rag' = chunk_step(rag)
    /\ UNCHANGED <<up, rails, convFile, msgFile, rq>>

\* rag.py 14-16
ChunkReturn ==
    /\ rag.op = "simple_chunk" /\ rag.pc = "loop"
    /\ rag.i > Len(rag.paras)
    /\ rag' = [rag EXCEPT !.chunks = IF rag.buf # <<>> THEN Append(@, strip(rag.buf)) ELSE @,
                          !.groups = IF rag.buf # <<>> THEN Append(@, rag.group) ELSE @,
                          !.buf = <<>>, !.group = <<>>, !.pc = "returned"]
    /\ UNCHANGED <<up, rails, convFile, msgFile, rq>>

RECURSIVE chunk_loop(_)
\* rag.py 8-13: the loop, run to its end.
chunk_loop(c) == IF c.i > Len(c.paras) THEN c ELSE chunk_loop(chunk_step(c))

\* rag.py 5-16: simple_chunk as one call.
simple_chunk(text, max_tokens_chars) ==
    LET c == chunk_loop([max_tokens_chars |-> max_tokens_chars,
                         paras |-> paragraphs(text), i |-> 1,
                         chunks |-> <<>>, buf |-> <<>>, groups |-> <<>>, group |-> <<>>])
    IN IF c.buf # <<>> THEN Append(c.chunks, strip(c.buf)) ELSE c.chunks

\* ------------------------------------------------------------ upload (main.py, file_service.py)
\* The default of simple_chunk's max_tokens_chars.
DefaultChunkChars == 1200

\* Filenames as the pieces around their dots; <<>> is a missing filename.
Filenames ==
    { <<>>,
      <<"notes", ".", "txt">>,
      <<"notes", ".", "TXT">>,
      <<"doc", ".", "pdf">>,
      <<"doc", ".", "pdf", ".", "docx">>,
      <<"README">>,
      <<"txt">> }

\* str.lower() on the pieces that occur.
lower(piece) ==
    CASE piece = "TXT" -> "txt"
      [] piece = "PDF" -> "pdf"
      [] OTHER -> piece

\* file.filename.split(".")[-1].lower() (main.py 41)
file_extension(filename) == lower(filename[Len(filename)])

\* A text of two paragraphs that do not fit into one chunk together.
LongText == [i \in 1..700 |-> "a"] \o <<"NL", "NL">> \o [i \in 1..700 |-> "b"]

\* The bytes of an upload: UTF-8 text, bytes that are neither UTF-8 nor a PDF,
\* or a PDF given by the texts extract_text() finds on its pages.
UploadContents ==
    { [kind |-> "text", text |-> t] :
        t \in {<<>>, <<" ", "NL">>, <<"a">>, <<"a", "NL", "NL", "b">>, LongText} }
    \cup { [kind |-> "binary"] }
    \cup { [kind |-> "pdf", pages |-> ps] :
             ps \in {<<>>, << <<" ">> >>, << <<"a">> >>, << <<"a">>, <<>> >>} }

RECURSIVE extract_text(_)
\* file_service.py 33-36: the page texts, each followed by a newline.
extract_text(pages) ==
    IF pages = <<>> THEN <<>> ELSE Head(pages) \o <<"NL">> \o extract_text(Tail(pages))

\* text.replace("\n", " ") (llm_service.py 216)
replace_newlines(text) == [i \in 1..Len(text) |-> IF text[i] = "NL" THEN " " ELSE text[i]]

\* llm_service.py 215-222: the embedding of a text.
generate_embedding(text) == <<"embedding", replace_newlines(text)>>

ErrNoFilename == <<"400: ", "No filename provided">>
ErrUnsupported == <<"400: ", "Only .txt and .pdf files are supported">>
ErrDecode == <<"'utf-8' codec can't decode">>
ErrPdfRead == <<"Error processing pdf : ", "not a PDF">>
ErrPdfNoText == <<"Error processing pdf : ", "No text content found in PDF">>
ErrPdfEmbed == <<"Error processing pdf : ", "embedding call failed">>
ErrUpsert == <<"vector index add failed">>

\* main.py 60-61: whatever is raised inside upload_file leaves it as a 500.
upload_error(u, detail) ==
    [pc |-> "done", filename |-> u.filename, content |-> u.content,
     file_extension |-> u.file_extension, reads |-> u.reads,
     chunkCalls |-> u.chunkCalls, embedCalls |-> u.embedCalls, upserts |-> u.upserts,
     chunks |-> u.chunks, embeddings |-> <<>>, items |-> <<>>,
     status |-> 500, body |-> detail]

\* A file is posted to /upload.
UploadRequest ==
    /\ up.pc = "idle"
    /\ \E filename \in Filenames, content \in UploadContents :
         up' = [pc |-> "validate", filename |-> filename, content |-> content,
                file_extension |-> "", reads |-> 0, chunkCalls |-> 0, embedCalls |-> 0,
                upserts |-> <<>>, chunks |-> <<>>, embeddings |-> <<>>, items |-> <<>>,
                status |-> 0, body |-> <<>>]
    /\ UNCHANGED <<rag, rails, convFile, msgFile, rq>>

\* upload_validate that goes on to read the file whatever its extension.
upload_validate_accepts_all(u) ==
    IF u.filename = <<>> THEN upload_error(u, ErrNoFilename)
    ELSE [u EXCEPT !.file_extension = file_extension(u.filename), !.pc = "read"]

\* main.py 38-43: the checks of the filename.
upload_validate(u) ==
    IF u.filename = <<>> THEN upload_error(u, ErrNoFilename)
    ELSE IF file_extension(u.filename) \notin {"txt", "pdf"}
         THEN upload_error([u EXCEPT !.file_extension = file_extension(u.filename)],
                           ErrUnsupported)
    ELSE [u EXCEPT !.file_extension = file_extension(u.filename), !.pc = "read"]

UploadValidate ==
    /\ up.pc = "validate"
    /\ up' = upload_validate(up)
    /\ UNCHANGED <<rag, rails, convFile, msgFile, rq>>

\* main.py 45: content = await file.read()
UploadRead ==
    /\ up.pc = "read"
    /\ up' = [up EXCEPT !.reads = @ + 1,
                        !.pc = IF up.file_extension = "txt" THEN "text" ELSE "pdf"]
    /\ UNCHANGED <<rag, rails, convFile, msgFile, rq>>

\* main.py 48-49, file_service.py 11: decode and chunk a text file.
UploadText ==
    /\ up.pc = "text"
    /\ IF up.content.kind = "text"
       THEN up' = [up EXCEPT !.chunks = simple_chunk(up.content.text, DefaultChunkChars),
                             !.chunkCalls = @ + 1, !.pc = "embed"]
       ELSE up' = upload_error(up, ErrDecode)
    /\ UNCHANGED <<rag, rails, convFile, msgFile, rq>>

\* process_pdf without the test of file_service.py 38-39.
process_pdf_keeps_empty(u) ==
    IF u.content.kind # "pdf" THEN upload_error(u, ErrPdfRead)
    ELSE [u EXCEPT !.chunks = simple_chunk(extract_text(u.content.pages), DefaultChunkChars),
                   !.chunkCalls = @ + 1, !.pc = "embed"]

\* file_service.py 30-42 and 59-60: read the PDF, refuse one without text,
\* chunk the text.
process_pdf(u) ==
    IF u.content.kind # "pdf" THEN upload_error(u, ErrPdfRead)
    ELSE LET text == extract_text(u.content.pages)
         IN IF strip(text) = <<>> THEN upload_error(u, ErrPdfNoText)
            ELSE [u EXCEPT !.chunks = simple_chunk(text, DefaultChunkChars),
                           !.chunkCalls = @ + 1, !.pc = "embed"]

UploadPdf ==
    /\ up.pc = "pdf"
    /\ up' = process_pdf(up)
    /\ UNCHANGED <<rag, rails, convFile, msgFile, rq>>

\* embed_next that writes each chunk to the Vector Index as soon as it is embedded.
embed_next_and_upsert(u) ==
    LET emb == generate_embedding(u.chunks[Len(u.embeddings) + 1]) IN
    [u EXCEPT !.embedCalls = @ + 1,
              !.embeddings = Append(@, emb),
              !.upserts = Append(@, <<[id |-> <<u.filename, Len(u.embeddings), "uuid">>,
                                       values |-> emb,
                                       metadata |-> [filename |-> u.filename,
                                                     text |-> u.chunks[Len(u.embeddings) + 1]]]>>)]

\* rag.py 30: generate_embedding for the next chunk of the list.
embed_next(u) ==
    [u EXCEPT !.embedCalls = @ + 1,
              !.embeddings = Append(@, generate_embedding(u.chunks[Len(u.embeddings) + 1]))]

\* rag.py 29-30: embed_texts embeds the next chunk.
UploadEmbed ==
    /\ up.pc = "embed"
    /\ Len(up.embeddings) < Len(up.chunks)
    /\ up' = embed_next(up)
    /\ UNCHANGED <<rag, rails, convFile, msgFile, rq>>

\* llm_service.py 217: client.embeddings.create raises.
UploadEmbedFails ==
    /\ up.pc = "embed"
    /\ Len(up.embeddings) < Len(up.chunks)
    /\ up' = upload_error([up EXCEPT !.embedCalls = @ + 1],
                          IF up.file_extension = "pdf" THEN ErrPdfEmbed ELSE ErrEmbed)
    /\ UNCHANGED <<rag, rails, convFile, msgFile, rq>>

\* file_service.py 14-26, 45-58: one item per pair of chunk and embedding.
make_items(u) ==
    [i \in 1..(IF Len(u.chunks) <= Len(u.embeddings) THEN Len(u.chunks) ELSE Len(u.embeddings)) |->
        [id |-> <<u.filename, i - 1, "uuid">>,
         values |-> u.embeddings[i],
         metadata |-> [filename |-> u.filename,
                       file_type |-> IF u.file_extension = "txt" THEN "text" ELSE "pdf",
                       text |-> u.chunks[i],
                       chunk_index |-> i - 1]]]

\* file_service.py 14-26 / 45-58: embed_texts has returned, the items are built.
UploadItems ==
    /\ up.pc = "embed"
    /\ Len(up.embeddings) = Len(up.chunks)
    /\ up' = [up EXCEPT !.items = make_items(up), !.pc = "store"]
    /\ UNCHANGED <<rag, rails, convFile, msgFile, rq>>

\* store_file_chunks that stores the first item only and reports the chunks of the file.
store_file_chunks_counts_chunks(u) ==
    [u EXCEPT !.upserts = IF u.items # <<>> THEN Append(@, SubSeq(u.items, 1, 1)) ELSE @,
              !.status = 200,
              !.body = [message |-> <<u.filename, " processed successfully">>,
                        file_id |-> u.filename, chunks_added |-> Len(u.chunks)],
              !.pc = "done"]

\* file_service.py 62-67 and main.py 53-59: upsert the items if there are
\* any, answer with their number.
store_file_chunks(u) ==
    [u EXCEPT !.upserts = IF u.items # <<>> THEN Append(@, u.items) ELSE @,
              !.status = 200,
              !.body = [message |-> <<u.filename, " processed successfully">>,
                        file_id |-> u.filename,
                        chunks_added |-> IF u.items # <<>> THEN Len(u.items) ELSE 0],
              !.pc = "done"]

UploadStore ==
    /\ up.pc = "store"
    /\ up' = store_file_chunks(up)
    /\ UNCHANGED <<rag, rails, convFile, msgFile, rq>>

\* vector_db.py 10: _collection.add raises.
UploadUpsertFails ==
    /\ up.pc = "store"
    /\ up.items # <<>>
    /\ up' = upload_error(up, ErrUpsert)
    /\ UNCHANGED <<rag, rails, convFile, msgFile, rq>>

\* ------------------------------------------------------------ rag.py: build_context
\* Matches as query_embeddings returns them (vector_db.py 28-30): with text,
\* without text, with empty text, without filename, with metadata None and
\* without metadata.
Matches ==
    { [metadata |-> [filename |-> "doc.txt", text |-> <<"hi">>]],
      [metadata |-> [filename |-> "b.txt", text |-> <<"yo">>]],
      [metadata |-> [filename |-> "c.txt"]],
      [metadata |-> [filename |-> "d.txt", text |-> <<>>]],
      [metadata |-> [text |-> <<"no">>]],
      [metadata |-> None],
      [id |-> "e"] }

ContextMatchLists == UNION {[1..n -> Matches] : n \in 0..MaxMatches}

\* A call build_context(matches) arrives.
ContextCall ==
    /\ rag.pc = "idle"
    /\ \E matches \in ContextMatchLists :
         rag' = [op |-> "build_context", pc |-> "call", matches |-> matches]
    /\ UNCHANGED <<up, rails, convFile, msgFile, rq>>

\* rag.py 18-27
ContextReturn ==
    /\ rag.op = "build_context" /\ rag.pc = "call"
    /\ rag' = [op |-> "build_context", pc |-> "returned", matches |-> rag.matches,
               context |-> build_context(rag.matches)]
    /\ UNCHANGED <<up, rails, convFile, msgFile, rq>>

\* ------------------------------------------------------------ specifications
\* The calls into the conversation store.
Store(r) ==
    \/ LastResponseId(r)
    \/ History(r)
    \/ GetConversation(r)
    \/ CreateConversationLoad(r)
    \/ CreateConversationOpen(r)
    \/ CreateConversationDump(r)
    \/ AddMessageLoad(r)
    \/ AddMessageOpen(r)
    \/ AddMessageDump(r)
    \/ AddMessageConversations(r)
    \/ AddMessageConvOpen(r)
    \/ AddMessageConvDump(r)

\* One request with every input, every answer of the gate and every failure
\* of a collaborator.
Next ==
    \/ ChatRequest("r1", Kinds, Queries, {None, MissingId} \cup DOMAIN convFile)
    \/ InputCheck("r1", GateOutcomes)
    \/ Embed("r1")
    \/ Retrieve("r1", MatchLists)
    \/ Generate("r1", Texts, GateOutcomes)
    \/ Store("r1")
    \/ OutputGuard("r1", GateOutcomes)
    \/ StreamBlocked("r1", GateOutcomes)
    \/ StreamOpen("r1", GateOutcomes)
    \/ StreamDelta("r1", Frags)
    \/ StreamEnd("r1", GateOutcomes)
    \/ StreamFallback("r1", Texts, GateOutcomes)
    \/ StreamDone("r1", GateOutcomes)
    \/ EmbedFails("r1")
    \/ RetrieveFails("r1")
    \/ GenerateFails("r1", GateOutcomes)
    \/ StreamOpenFails("r1", GateOutcomes)
    \/ StreamBreaks("r1")
    \/ StreamFallbackFails("r1", GateOutcomes)
    \/ StoreError("r1")
    \/ ClientDisconnect("r1")

Spec == Init /\ [][Next]_vars

\* Two requests in two worker threads over an empty store, with a gate that
\* passes everything and no failing collaborator.  The requests are alike, so
\* "r2" is taken to be the one that arrives second.
ConcTexts == {<<"a", " ">>}
ConcFrags == {<<"a", " ">>}

NextConc ==
    \E r \in Reqs :
        \/ /\ r = "r2" => rq["r1"].pc # "idle"
           /\ ChatRequest(r, Kinds, {<<"q">>}, {None} \cup ToldIds)
        \/ InputCheck(r, GateSafe)
        \/ Embed(r)
        \/ Retrieve(r, {<<>>})
        \/ Generate(r, ConcTexts, GateSafe)
        \/ Store(r)
        \/ OutputGuard(r, GateSafe)
        \/ StreamOpen(r, GateSafe)
        \/ StreamDelta(r, ConcFrags)
        \/ StreamEnd(r, GateSafe)
        \/ StreamDone(r, GateSafe)

SpecConc == InitConc /\ [][NextConc]_vars

\* Calls of rag.py on their own: simple_chunk over every short text and the
\* example texts, build_context over every short list of matches.
InitRag ==
    /\ rag = RagIdle
    /\ up = UpIdle
    /\ rails = "ok"
    /\ convFile = EmptyDict
    /\ msgFile = <<>>
    /\ rq = [r \in Reqs |-> NewReq]

NextRag ==
    \/ ChunkCall
    \/ ChunkSplit
    \/ ChunkPara
    \/ ChunkReturn
    \/ ContextCall
    \/ ContextReturn

SpecRag == InitRag /\ [][NextRag]_vars

\* Uploads on their own: every filename with every content, and every
\* failure of the Embedder and of the Vector Index.
InitUpload ==
    /\ rag = RagIdle
    /\ up = UpIdle
    /\ rails = "ok"
    /\ convFile = EmptyDict
    /\ msgFile = <<>>
    /\ rq = [r \in Reqs |-> NewReq]

NextUpload ==
    \/ UploadRequest
    \/ UploadValidate
    \/ UploadRead
    \/ UploadText
    \/ UploadPdf
    \/ UploadEmbed
    \/ UploadEmbedFails
    \/ UploadItems
    \/ UploadStore
    \/ UploadUpsertFails

SpecUpload == InitUpload /\ [][NextUpload]_vars

\* A request up to the threading context of its turn (main.py 80-83, 141-150),
\* over stores left by earlier turns: a log of up to MaxStored messages of two
\* conversations, user and assistant messages in turn, one assistant message
\* of every four without response_id (the reply to a blocked input), and every
\* selection of its messages.
Turns == <<"t1", "t2", "t3", "t4", "t5", "t6", "t7">>
StoredContents == << <<"a">>, <<"b">>, <<"a", " ", "b">> >>

stored_conversation(i) == IF i % 8 \in {7, 0} THEN ConvId("t4") ELSE ConvId("t1")

StoredMessage(i) ==
    LET turn == Turns[(i + 1) \div 2]
        role == IF i % 2 = 1 THEN "user" ELSE "assistant"
    IN [id |-> MsgId(turn, role), conversation_id |-> stored_conversation(i),
        role |-> role, content |-> StoredContents[(i % 3) + 1],
        response_id |-> IF role = "assistant" /\ i % 8 # 6 THEN RespId(turn, "stream") ELSE None,
        parent_message_id |-> IF role = "user" THEN None ELSE MsgId(turn, "user"),
        created_at |-> Now(MsgId(turn, role))]

\* The messages of the log at the positions S, in the order of the log.
StoredLog(S) ==
    LET F[i \in 0..MaxStored] ==
            IF i = 0 THEN <<>>
            ELSE IF i \in S THEN Append(F[i - 1], StoredMessage(i)) ELSE F[i - 1]
    IN F[MaxStored]

StoredConversations(messages) ==
    [c \in {ConvId("t1"), ConvId("t4")} |->
        LET own == select_conversation(messages, c) IN
        [id |-> c, title |-> <<"a">>, created_at |-> Now(c),
         updated_at |-> IF own = <<>> THEN Now(c) ELSE own[Len(own)].created_at]]

InitThread ==
    /\ rag = RagIdle
    /\ up = UpIdle
    /\ rails = "ok"
    /\ \E S \in SUBSET (1..MaxStored) :
         /\ msgFile = StoredLog(S)
         /\ convFile = StoredConversations(StoredLog(S))
    /\ rq = [r \in Reqs |-> NewReq]

NextThread ==
    \/ ChatRequest("r1", Kinds, {<<"q">>}, {None, ConvId("t1"), ConvId("t4"), MissingId})
    \/ InputCheck("r1", GateSafe)
    \/ Embed("r1")
    \/ Retrieve("r1", {<<>>})
    \/ LastResponseId("r1")
    \/ History("r1")

SpecThread == InitThread /\ [][NextThread]_vars

\* ------------------------------------------------------------ properties
Done(r) == rq[r].pc = "done"

\* The messages of messages.json that request r wrote in the given role.
Persisted(r, role) ==
    {i \in 1..Len(msgFile) : msgFile[i].id = MsgId(r, role)}

\* The content events a stream's client has received, in order.
ContentEvents(r) == SelectSeq(rq[r].events, LAMBDA e : e.type = "content")

\* An output check of the turn rejected the answer.
OutputFlagged(r) == rq[r].inner_check = "unsafe" \/ rq[r].outer_check = "unsafe"

\* The request ended in a failure that is not a block by the gate.
Failed(r) ==
    /\ Done(r)
    /\ rq[r].input_safe = "safe"
    /\ \/ rq[r].status = 500
       \/ rq[r].stream = "aborted"
       \/ rq[r].stream = "complete" /\ rq[r].events[Len(rq[r].events)].type = "error"

\* The text the generation service produced for the turn: the accumulated
\* deltas of a stream, the unstripped output text of a batch call.
Generated(r) == IF rq[r].kind = "stream" THEN rq[r].llm_full ELSE rq[r].batch_raw

\* C1: a request whose query the input check flags unsafe makes no call to the
\* Embedder, to the Vector Index query or to the generation service.
C1_UnsafeQueryReachesNoCollaborator ==
    \A r \in Reqs :
        rq[r].input_safe = "unsafe" =>
            rq[r].embedCalls = 0 /\ rq[r].queryCalls = 0 /\ rq[r].genCalls = 0

C1_Witness ==
    \E r \in Reqs : rq[r].kind = "stream" /\ rq[r].input_safe = "unsafe" /\ Done(r)

\* C2: whenever an output check flags a generated answer (some text the
\* generation service produced), the assistant message persisted for the turn
\* is exactly the safe fallback, and does not contain the generated text.
C2_FlaggedAnswerPersistsFallback ==
    \A r \in Reqs :
        (OutputFlagged(r) /\ Generated(r) # <<>>) =>
            \A i \in Persisted(r, "assistant") :
                /\ msgFile[i].content = SafeResponse
                /\ ~Contains(Generated(r), msgFile[i].content)

\* C3: after a request that ended in a non-block failure the store holds no
\* user message of the turn without its assistant message.
C3_NoOrphanUserMessage ==
    \A r \in Reqs :
        Failed(r) => (Persisted(r, "user") # {} => Persisted(r, "assistant") # {})

\* C4: the events of a stream whose query passed the input check are one
\* metadata event, first, then content deltas, then - once the response is
\* complete - exactly one terminal event, done or error, and nothing after it.
C4_StreamEventOrder ==
    \A r \in Reqs :
        (rq[r].kind = "stream" /\ rq[r].input_safe = "safe") =>
            LET ev == rq[r].events
                n == Len(ev)
            IN /\ \A i \in 1..n : (ev[i].type = "info") <=> (i = 1)
               /\ n >= 1 => /\ ev[1].conversation_id = rq[r].conversation
                            /\ ev[1].conversation_id # None
                            /\ ev[1].user_message_id = MsgId(r, "user")
               /\ \A i \in 2..n :
                    \/ ev[i].type = "content" /\ ev[i].content # <<>> /\ ~ev[i].done /\ i < n
                    \/ ev[i].type = "content" /\ ev[i].content # <<>> /\ ~ev[i].done
                         /\ rq[r].stream \in {"open", "abandoned"}
                    \/ ev[i].type = "done" /\ ev[i].done /\ i = n
                         /\ ev[i].message_id = MsgId(r, "assistant")
                         /\ ev[i].response_id = rq[r].response_id
                         /\ rq[r].stream = "complete"
                    \/ ev[i].type = "error" /\ i = n /\ rq[r].stream = "complete"
               /\ rq[r].stream = "complete" => (n >= 2 /\ ev[n].type \in {"done", "error"})
               /\ rq[r].stream = "complete" => Done(r)

C4_Witness ==
    \E r \in Reqs :
        /\ rq[r].kind = "stream" /\ rq[r].input_safe = "safe" /\ rq[r].stream = "complete"
        /\ Len(rq[r].events) >= 3
        /\ rq[r].events[Len(rq[r].events)].type = "error"

\* C5: a non-streaming request whose conversation_id resolves to no
\* conversation fails with NotFound (404); a streaming request with such an id
\* that completes with a done event has created a fresh conversation and
\* persisted the turn in it.
C5_MissingConversation ==
    \A r \in Reqs :
        /\ (rq[r].kind = "chat" /\ rq[r].body = ErrNotFound) => rq[r].status = 404
        /\ (/\ rq[r].kind = "stream" /\ rq[r].conversation_id = MissingId
            /\ rq[r].stream = "complete"
            /\ rq[r].events[Len(rq[r].events)].type = "done")
           => /\ rq[r].created /\ rq[r].conversation = ConvId(r)
              /\ \A i \in Persisted(r, "user") \cup Persisted(r, "assistant") :
                    msgFile[i].conversation_id = ConvId(r)

\* C6: a streaming and a non-streaming turn with the same query, context,
\* history and previous response id, for which the generation service produced
\* the same text, persist assistant messages of the same content.
C6_StreamAndBatchPersistSameContent ==
    \A s \in Reqs, b \in Reqs :
        (/\ rq[s].kind = "stream" /\ rq[b].kind = "chat"
         /\ rq[s].assistant_message # NoMsg /\ rq[b].assistant_message # NoMsg
         /\ rq[s].query = rq[b].query /\ rq[s].context = rq[b].context
         /\ rq[s].history_text = <<>>
         /\ rq[s].previous_response_id = rq[b].previous_response_id
         /\ ~rq[s].stream_failed
         /\ rq[s].llm_full = rq[b].batch_raw)
        => rq[s].assistant_message.content = rq[b].assistant_message.content

\* C7: when the streaming call failed and the batch call answered in its place,
\* the client receives the batch result as the only content fragment, and the
\* accumulated answer that is checked and persisted is the batch result alone.
C7_FallbackAnswerIsBatchResult ==
    \A r \in Reqs :
        (rq[r].stream_failed /\ rq[r].batch = "returned") =>
            /\ rq[r].full_response = rq[r].batch_answer
            /\ Len(ContentEvents(r)) <= 1

C9_FlaggedTextNotShown ==
    \A r \in Reqs :
        (OutputFlagged(r) /\ Generated(r) # <<>>
            /\ rq[r].assistant_message # NoMsg /\ Done(r)) =>
            /\ rq[r].assistant_message.content = SafeResponse
            /\ rq[r].kind = "chat" => rq[r].body.answer = SafeResponse
            /\ rq[r].kind = "stream" =>
                 /\ ContentEvents(r) # <<>>
                 /\ \A i \in 1..Len(ContentEvents(r)) :
                        strip(ContentEvents(r)[i].content) = SafeResponse

\* C10: once every request has finished, each message whose add_message call
\* returned and each conversation whose create_conversation call returned is
\* in the store, the message with the fields it was created with.
C10_NoAppendLost ==
    (\A r \in Reqs : Done(r)) =>
        \A r \in Reqs :
            /\ rq[r].user_message # NoMsg =>
                 \E i \in 1..Len(msgFile) : msgFile[i] = rq[r].user_message
            /\ rq[r].assistant_message # NoMsg =>
                 \E i \in 1..Len(msgFile) : msgFile[i] = rq[r].assistant_message
            /\ (rq[r].created /\ rq[r].user_message # NoMsg) =>
                 /\ ConvId(r) \in DOMAIN convFile
                 /\ convFile[ConvId(r)].title = title_of(rq[r].query)

\* C11: after the client abandoned a stream before its terminal event, the
\* store holds no assistant message of the turn, or exactly one, and that one
\* carries the complete final content (the whole accumulated answer or the
\* safe fallback), the response_id of the done event and the id of the turn's
\* user message as parent_message_id.
C11_AbandonedStreamStoresWholeAnswer ==
    \A r \in Reqs :
        (rq[r].kind = "stream" /\ rq[r].stream = "abandoned") =>
            /\ Cardinality(Persisted(r, "assistant")) <= 1
            /\ \A i \in Persisted(r, "assistant") :
                 /\ rq[r].events[Len(rq[r].events)].type # "done"
                 /\ msgFile[i].content = rq[r].final_content
                 /\ rq[r].final_content \in {rq[r].full_response, SafeResponse}
                 /\ Len(rq[r].full_response) >= Len(rq[r].llm_full)
                 /\ msgFile[i].response_id = rq[r].done_response_id
                 /\ msgFile[i].parent_message_id = MsgId(r, "user")
                 /\ msgFile[i].conversation_id = rq[r].conversation

C11_Witness ==
    \E r \in Reqs :
        /\ rq[r].kind = "stream" /\ rq[r].stream = "abandoned"
        /\ rq[r].llm_full # <<>>
        /\ Persisted(r, "assistant") # {}

\* The turn succeeded: a ChatResponse (main.py 116-121) or a stream that ended
\* with its done event (main.py 210).
Success(r) ==
    /\ Done(r)
    /\ \/ rq[r].kind = "chat" /\ rq[r].status = 200 /\ rq[r].stream = "none"
       \/ /\ rq[r].kind = "stream" /\ rq[r].stream = "complete"
          /\ rq[r].events[Len(rq[r].events)].type = "done"

\* C12: a successful turn has appended exactly two messages to the store, the
\* user message and then the assistant message, both in the turn's
\* conversation, the assistant message naming the user message as its parent;
\* a turn without conversation_id has created exactly one conversation, the
\* one that holds the two messages.
C12_TurnAppendsUserThenAssistant ==
    \A r \in Reqs :
        Success(r) =>
            LET n == Len(msgFile) IN
            /\ n >= 2
            /\ SubSeq(msgFile, 1, n - 2) \in {<<>>, SeedMessages}
            /\ msgFile[n - 1].id = MsgId(r, "user") /\ msgFile[n - 1].role = "user"
            /\ msgFile[n].id = MsgId(r, "assistant") /\ msgFile[n].role = "assistant"
            /\ msgFile[n].parent_message_id = msgFile[n - 1].id
            /\ msgFile[n - 1].conversation_id = rq[r].conversation
            /\ msgFile[n].conversation_id = rq[r].conversation
            /\ rq[r].conversation \in DOMAIN convFile
            /\ ~Truthy(rq[r].conversation_id) =>
                 /\ rq[r].conversation = ConvId(r)
                 /\ DOMAIN convFile \ {ConvId(r)} \in {{}, DOMAIN SeedConversations}
                 /\ ConvId(r) \notin DOMAIN SeedConversations

C12_Witness ==
    \E r \in Reqs :
        /\ Success(r) /\ rq[r].kind = "stream" /\ ~Truthy(rq[r].conversation_id)
        /\ Len(msgFile) = Len(SeedMessages) + 2

\* C13: under every interleaving of requests, each message was appended to
\* messages.json at a moment when the conversation its conversation_id names
\* was in the store.
C13_MessageConversationExists ==
    \A r \in Reqs : ~rq[r].dangling

\* The conversation that holds the assistant message carrying response id rid.
conversation_of_response(rid) ==
    IF rid[2] \in Reqs THEN rq[rid[2]].conversation ELSE ConvId(rid[2])

\* C14: the previous response_id handed to the generation service for a turn
\* is the response_id of an assistant message of the conversation into which
\* the turn's messages are persisted.
C14_PreviousResponseSameConversation ==
    \A r \in Reqs :
        (/\ Truthy(rq[r].previous_response_id)
         /\ rq[r].genCalls > 0
         /\ rq[r].user_message # NoMsg)
        => conversation_of_response(rq[r].previous_response_id) = rq[r].conversation

\* The ways the gate itself fails: self.rails is None, or rails.generate raises.
GateFailures == {"uninit", "fail"}

\* C15: a failing gate answers is_safe = false to the input check and to the
\* output check; a request whose input check failed this way is answered as
\* blocked (status 200, the single "Input blocked" event), not as a failure,
\* and has called neither the Embedder nor the Vector Index nor the
\* generation service.
C15_GateFailsClosed ==
    /\ \A o \in GateFailures :
         ~check_input_safety(o).is_safe /\ ~check_output_safety(o).is_safe
    /\ \A r \in Reqs :
         (rq[r].pc \notin {"idle", "input_check"} /\ rq[r].input_safe # "safe") =>
            /\ rq[r].input_safe = "unsafe" /\ Done(r)
            /\ rq[r].status = 200 /\ rq[r].stream = "complete" /\ ~Failed(r)
            /\ Len(rq[r].events) = 1 /\ rq[r].events[1].type = "error"
            /\ rq[r].events[1].error[1] = "Input blocked by guardrails: "
            /\ rq[r].embedCalls = 0 /\ rq[r].queryCalls = 0 /\ rq[r].genCalls = 0

C15_Witness ==
    \E r \in Reqs :
        /\ Done(r) /\ rq[r].kind = "stream"
        /\ rq[r].events = <<ErrorEvent(<<"Input blocked by guardrails: ">> \o MsgCheckFailed)>>

\* simple_chunk has returned.
Chunked == rag.op = "simple_chunk" /\ rag.pc = "returned"

\* C16: no chunk simple_chunk returns is longer than max_tokens_chars, unless
\* it consists of a single paragraph that is itself longer.
C16_ChunkWithinLimit ==
    Chunked =>
        /\ Len(rag.groups) = Len(rag.chunks)
        /\ \A k \in 1..Len(rag.chunks) :
             /\ rag.chunks[k] = join(<<"NL">>, rag.groups[k])
             /\ \/ Len(rag.chunks[k]) <= rag.max_tokens_chars
                \/ /\ Len(rag.groups[k]) = 1
                   /\ Len(rag.groups[k][1]) > rag.max_tokens_chars

C16_Witness ==
    /\ Chunked
    /\ \E k \in 1..Len(rag.chunks) :
         Len(rag.groups[k]) = 2 /\ Len(rag.chunks[k]) = rag.max_tokens_chars
    /\ \E k \in 1..Len(rag.chunks) : Len(rag.chunks[k]) > rag.max_tokens_chars

RECURSIVE flatten(_)
\* The members of a sequence of sequences, in order.
flatten(seqs) == IF seqs = <<>> THEN <<>> ELSE Head(seqs) \o flatten(Tail(seqs))

\* The characters of a text that are not whitespace, in order.
ink(text) == SelectSeq(text, LAMBDA c : c \notin Whitespace)

\* C17: the paragraphs in the returned chunks, read chunk by chunk, are the
\* non-blank paragraphs of the input in their order, each whole and once; the
\* chunks joined by the separator are the paragraphs joined by it, and every
\* character of the input that is not whitespace is kept, in order.
C17_ChunksKeepParagraphs ==
    Chunked =>
        /\ flatten(rag.groups) = paragraphs(rag.text)
        /\ \A k \in 1..Len(rag.groups) :
             rag.groups[k] # <<>> /\ rag.chunks[k] = join(<<"NL">>, rag.groups[k])
        /\ \A i \in 1..Len(paragraphs(rag.text)) :
             LET para == paragraphs(rag.text)[i]
             IN para # <<>> /\ strip(para) = para /\ Contains(para, rag.text)
        /\ join(<<"NL">>, rag.chunks) = join(<<"NL">>, paragraphs(rag.text))
        /\ ink(join(<<"NL">>, rag.chunks)) = ink(rag.text)

C17_Witness ==
    /\ Chunked
    /\ Len(rag.chunks) >= 2
    /\ \E k \in 1..Len(rag.groups) : Len(rag.groups[k]) = 2
    /\ Len(join(<<"NL">>, rag.chunks)) < Len(rag.text)

\* C18: a paragraph longer than max_tokens_chars is returned whole as a chunk
\* of its own, packed with no other paragraph; two paragraphs of ten
\* characters with a limit of 5 give two chunks of one paragraph each; the
\* empty text gives no chunk.
C18_LongParagraphAlone ==
    Chunked =>
        /\ \A k \in 1..Len(rag.groups) :
             (\E i \in 1..Len(rag.groups[k]) :
                  Len(rag.groups[k][i]) > rag.max_tokens_chars)
             => Len(rag.groups[k]) = 1 /\ rag.chunks[k] = rag.groups[k][1]
        /\ \A i \in 1..Len(paragraphs(rag.text)) :
             Len(paragraphs(rag.text)[i]) > rag.max_tokens_chars
             => \E k \in 1..Len(rag.chunks) : rag.chunks[k] = paragraphs(rag.text)[i]
        /\ Len(flatten(rag.groups)) = Len(paragraphs(rag.text))
        /\ (/\ rag.text = [i \in 1..10 |-> "a"] \o <<"NL", "NL">> \o [i \in 1..10 |-> "b"]
            /\ rag.max_tokens_chars = 5)
           => rag.chunks = <<[i \in 1..10 |-> "a"], [i \in 1..10 |-> "b"]>>
        /\ rag.text = <<>> => rag.chunks = <<>>

C18_Witness ==
    /\ Chunked
    /\ rag.text = [i \in 1..10 |-> "a"] \o <<"NL", "NL">> \o [i \in 1..10 |-> "b"]
    /\ rag.max_tokens_chars = 5
    /\ Len(rag.chunks) = 2

\* build_context has returned.
ContextBuilt == rag.op = "build_context" /\ rag.pc = "returned"

\* The match carries a text that is not empty.
has_text(m) ==
    /\ "metadata" \in DOMAIN m
    /\ m.metadata # None
    /\ "text" \in DOMAIN m.metadata
    /\ m.metadata.text # <<>>

\* C19: build_context of no matches is the empty string; the output is the
\* outputs of the single matches, in the order of the matches, joined by the
\* separator; a match without text or with an empty text contributes nothing.
C19_ContextKeepsOrderSkipsEmpty ==
    ContextBuilt =>
        LET kept == SelectSeq(rag.matches, has_text)
            each == [i \in 1..Len(kept) |-> build_context(<<kept[i]>>)]
        IN /\ rag.matches = <<>> => rag.context = <<>>
           /\ kept = <<>> => rag.context = <<>>
           /\ rag.context = build_context(kept)
           /\ rag.context = join(<<"NL", "NL">>, each)
           /\ \A i \in 1..Len(kept) :
                /\ each[i] # <<>>
                /\ each[i][Len(each[i])] = kept[i].metadata.text[1]
                /\ Contains(each[i], rag.context)

C19_Witness ==
    /\ ContextBuilt
    /\ Len(rag.matches) = 2
    /\ has_text(rag.matches[1]) /\ ~has_text(rag.matches[2])
    /\ rag.context # <<>>

\* C20: a match with a text that is not empty is emitted as
\* "[Source: <filename>] <text>", the fragments joined by a blank line; the
\* single match (doc.txt, hi) gives "[Source: doc.txt] hi".
C20_ContextFormat ==
    ContextBuilt =>
        LET kept == SelectSeq(rag.matches, has_text)
            fragment(m) ==
                <<"[Source: ", Get(m.metadata, "filename", "unknown-filename"), "] ">>
                \o m.metadata.text
        IN rag.context = join(<<"NL", "NL">>, [i \in 1..Len(kept) |-> fragment(kept[i])])

\* The upload is a PDF whose pages carry no text but whitespace.
EmptyPdf ==
    /\ up.pc # "idle"
    /\ up.file_extension = "pdf" /\ up.content.kind = "pdf"
    /\ strip(extract_text(up.content.pages)) = <<>>

\* C21: the upload of a PDF whose extracted text is empty or whitespace only
\* fails with the error "No text content found in PDF", never calls the
\* chunker, the Embedder or the Vector Index upsert, and stores nothing.
C21_EmptyPdfRejected ==
    EmptyPdf =>
        /\ up.chunkCalls = 0 /\ up.embedCalls = 0 /\ up.upserts = <<>>
        /\ up.pc \in {"read", "pdf", "done"}
        /\ up.pc = "done" => up.status = 500 /\ up.body = ErrPdfNoText

C21_Witness ==
    /\ EmptyPdf /\ up.pc = "done"
    /\ up.content.pages = << <<" ">> >>

\* The upload has been answered with success.
Ingested == up.pc = "done" /\ up.status = 200

\* The items handed to the Vector Index, over all upsert calls.
Upserted == flatten(up.upserts)

\* C22: a successful ingest returns the number of chunks upserted, which is
\* the number of chunks the chunker produced, each chunk upserted once in
\* one call; an ingest of zero chunks succeeds, returns 0 and makes no upsert
\* call.
C22_IngestCountsChunks ==
    Ingested =>
        /\ up.body.chunks_added = Len(Upserted)
        /\ Len(Upserted) = Len(up.chunks)
        /\ \A i \in 1..Len(up.chunks) : Upserted[i].metadata.text = up.chunks[i]
        /\ Len(up.upserts) = (IF up.chunks = <<>> THEN 0 ELSE 1)
        /\ up.embedCalls = Len(up.chunks)

C22_Witness ==
    /\ Ingested
    /\ Len(up.chunks) = 2 /\ up.body.chunks_added = 2

\* A text file without a chunk has been ingested.
C22_ZeroChunks ==
    /\ Ingested
    /\ up.file_extension = "txt" /\ up.chunks = <<>> /\ up.body.chunks_added = 0

\* The upload carries a filename whose extension, the part after its last
\* dot (the whole name when it has no dot) in lower case, is neither txt nor pdf.
Unsupported ==
    /\ up.pc # "idle"
    /\ up.filename # <<>>
    /\ file_extension(up.filename) \notin {"txt", "pdf"}

OutputChecks(r) ==
    (IF rq[r].inner_check # "none" THEN 1 ELSE 0)
    + (IF rq[r].outer_check # "none" THEN 1 ELSE 0)

\* C24: on the streaming path the output check is applied to the answer of
\* a turn exactly once, on the whole accumulated answer and after the
\* stream has ended: never before, never on a fragment, never a second time.
C24_OutputCheckedOnce ==
    \A r \in Reqs :
        rq[r].kind = "stream" /\ ~rq[r].stream_failed /\ rq[r].llm_full # <<>> =>
            /\ rq[r].pc = "streaming" => OutputChecks(r) = 0
            /\ Persisted(r, "assistant") # {} => OutputChecks(r) = 1

\* C25: a /chat request that fails because the conversation it names does
\* not exist has not invoked the generation service, and has created neither
\* a conversation nor a message.
C25_MissingConversationFailsFirst ==
    \A r \in Reqs :
        /\ rq[r].kind = "chat" /\ rq[r].conversation_id = MissingId
        /\ rq[r].body = ErrNotFound /\ Done(r)
        => /\ rq[r].status # 200
           /\ rq[r].genCalls = 0 /\ rq[r].batch = "none"
           /\ Persisted(r, "user") = {} /\ Persisted(r, "assistant") = {}
           /\ ConvId(r) \notin DOMAIN convFile

\* The contents of the content events the client has received, in order.
Delivered(r) == [i \in 1..Len(ContentEvents(r)) |-> ContentEvents(r)[i].content]

\* C26: the content events delivered to the client of a stream carry
\* exactly the non-empty content fragments the generation step has yielded,
\* in the order it yielded them, each once; no delivered event is empty;
\* while the stream runs they add up to the deltas received so far.
C26_DeliversFragmentsInOrder ==
    \A r \in Reqs :
        rq[r].kind = "stream" =>
            /\ Delivered(r) = SelectSeq(rq[r].fragments, LAMBDA f : f # <<>>)
            /\ \A i \in 1..Len(Delivered(r)) : Delivered(r)[i] # <<>>
            /\ rq[r].pc = "streaming" => flatten(Delivered(r)) = rq[r].llm_full

C26_Witness ==
    \E r \in Reqs :
        /\ rq[r].kind = "stream"
        /\ Len(rq[r].fragments) = 2 /\ rq[r].fragments[2] = <<>>
        /\ Delivered(r) = << rq[r].fragments[1] >>

\* The messages that returned calls of add_message have added to conversation c.
Added(c) ==
    { rq[x].user_message : x \in {y \in Reqs : rq[y].user_message # NoMsg /\ rq[y].conversation = c} }
    \cup { rq[x].assistant_message :
              x \in {y \in Reqs : rq[y].assistant_message # NoMsg /\ rq[y].conversation = c} }

\* C27: once every request has finished, each conversation of the store has
\* the id, title and created_at it was created with, and its updated_at is
\* the creation time of a message that add_message added to it (of the
\* conversation itself when it has none): add_message changes updated_at of
\* its own conversation only, and no other operation changes a conversation.
C27_OnlyAddMessageTouchesUpdatedAt ==
    (\A r \in Reqs : Done(r)) =>
        \A c \in DOMAIN convFile :
            /\ convFile[c].id = c
            /\ \A x \in Reqs : c = ConvId(x) =>
                   /\ convFile[c].title = title_of(rq[x].query)
                   /\ convFile[c].created_at = Now(c)
            /\ convFile[c].updated_at \in
                   IF Added(c) = {} THEN {convFile[c].created_at}
                   ELSE {m.created_at : m \in Added(c)}

\* The positions in messages.json of the assistant messages of conversation
\* cid that carry a response_id.
Threaded(cid) ==
    {i \in 1..Len(msgFile) : /\ msgFile[i].conversation_id = cid
                             /\ msgFile[i].role = "assistant"
                             /\ msgFile[i].response_id \notin {None, EmptyStr}}

\* The request has got its previous response id.
ThreadResolved(r) ==
    /\ Truthy(rq[r].conversation_id)
    /\ rq[r].pc \notin {"idle", "input_check", "embed", "retrieve", "last_response_id"}

\* C28: get_last_assistant_response_id(c) is the response_id of the latest
\* message in append order among the assistant messages of conversation c that
\* carry a response_id, and absent when there is none; it is the same with
\* every other message taken out of the store.
C28_LastAssistantResponseId ==
    \A r \in Reqs :
        ThreadResolved(r) =>
            LET cid == rq[r].conversation_id IN
            /\ rq[r].previous_response_id =
                   IF Threaded(cid) = {} THEN None
                   ELSE msgFile[Greatest(Threaded(cid))].response_id
            /\ rq[r].previous_response_id =
                   last_response_id(SelectSeq(msgFile,
                       LAMBDA m : /\ m.conversation_id = cid /\ m.role = "assistant"
                                  /\ Truthy(m.response_id)))

C28_Witness ==
    \E r \in Reqs :
        /\ ThreadResolved(r)
        /\ rq[r].conversation_id = ConvId("t1")
        /\ Threaded(ConvId("t1")) = {2, 4}
        /\ Len(msgFile) >= 8
        /\ msgFile[6].conversation_id = ConvId("t1") /\ msgFile[6].role = "assistant"
        /\ msgFile[8].conversation_id = ConvId("t4") /\ msgFile[8].role = "assistant"
        /\ rq[r].previous_response_id = RespId("t2", "stream")

\* The streaming request has built the history of its turn.
HistoryBuilt(r) ==
    /\ rq[r].kind = "stream"
    /\ rq[r].pc \notin {"idle", "input_check", "embed", "retrieve", "last_response_id", "history"}

\* The persisted messages of the conversation the request names.
Past(r) == SelectSeq(msgFile, LAMBDA m : m.conversation_id = rq[r].conversation_id)

\* C29: the history a streaming turn passes to generation is made of the last
\* min(5, n) of the n persisted messages of the conversation, in append order,
\* one line each, "User: " before the content of a user message and
\* "Assistant: " before any other; without a conversation_id it is empty.
C29_HistoryIsLastFive ==
    \A r \in Reqs :
        HistoryBuilt(r) =>
            LET n == Len(Past(r))
                k == IF n < 5 THEN n ELSE 5
                line(j) == <<IF Past(r)[n - k + j].role = "user" THEN "User: " ELSE "Assistant: ">>
                           \o Past(r)[n - k + j].content
            IN /\ rq[r].history_text = join(<<"NL">>, [j \in 1..k |-> line(j)])
               /\ rq[r].conversation_id = None => rq[r].history_text = <<>>

C29_Witness ==
    \E r \in Reqs :
        /\ HistoryBuilt(r)
        /\ Len(Past(r)) = 7
        /\ Len(SelectSeq(rq[r].history_text, LAMBDA c : c = "NL")) = 4
        /\ rq[r].history_text[1] = "User: "

\* The message_id and response_id the answer of a successful turn carries: in
\* the done event of a stream, in the ChatResponse otherwise.
AnswerIds(r) ==
    IF rq[r].kind = "stream"
    THEN [message_id |-> rq[r].events[Len(rq[r].events)].message_id,
          response_id |-> rq[r].events[Len(rq[r].events)].response_id]
    ELSE [message_id |-> rq[r].body.message_id, response_id |-> rq[r].body.response_id]

\* The messages in messages.json; while a writer is between open() and
\* json.dump() (conversation_service.py 53-54) also the messages it is writing.
StoredMessages ==
    {msgFile[i] : i \in 1..Len(msgFile)}
    \cup UNION { {rq[x].messages[i] : i \in 1..Len(rq[x].messages)} :
                    x \in {y \in Reqs : rq[y].pc = "am_dump"} }

\* The store holds the assistant message the answer of turn r names.
AnswerStored(r) ==
    \E m \in StoredMessages :
        /\ m.id = AnswerIds(r).message_id
        /\ m.response_id = AnswerIds(r).response_id
        /\ m.role = "assistant"
        /\ m.id = MsgId(r, "assistant")

\* C30: the message_id and response_id of the done event of a stream (of the
\* ChatResponse of /chat) are those of the assistant message that add_message
\* persisted for the turn, and at the moment the done event is emitted that
\* message is in the store.
C30_DoneAfterPersist ==
    [][\A r \in Reqs :
         (~Success(r) /\ Success(r)') =>
            /\ AnswerIds(r)'.message_id = rq[r].assistant_message.id'
            /\ AnswerIds(r)'.response_id = rq[r].assistant_message.response_id'
            /\ rq[r].assistant_message.id' = MsgId(r, "assistant")
            /\ rq[r].kind' = "stream" => AnswerStored(r)']_vars

\* The upload has failed in an embedding call.
EmbedFailed == up.pc = "done" /\ up.body \in {ErrEmbed, ErrPdfEmbed}

\* C31: the Vector Index is written only after every chunk of the document
\* has been embedded, in one upsert call that carries a record for each chunk;
\* while chunks are being embedded, and after an embedding call has failed,
\* nothing has been written.
C31_IngestAllOrNothing ==
    /\ up.pc \in {"embed", "store"} => up.upserts = <<>>
    /\ up.pc # "idle" =>
          /\ Len(up.upserts) <= 1
          /\ up.upserts # <<>> =>
                /\ up.embedCalls = Len(up.chunks)
                /\ Len(up.upserts[1]) = Len(up.chunks)
                /\ \A i \in 1..Len(up.chunks) :
                      /\ up.upserts[1][i].metadata.text = up.chunks[i]
                      /\ up.upserts[1][i].values = generate_embedding(up.chunks[i])
    /\ EmbedFailed => up.upserts = <<>>

C31_Witness ==
    /\ EmbedFailed
    /\ Len(up.chunks) = 2 /\ up.embedCalls = 2
    /\ up.upserts = <<>>

\* The messages of the store that are not those of turn r.
Others(r) ==
    SelectSeq(msgFile, LAMBDA m : m.id \notin {MsgId(r, "user"), MsgId(r, "assistant")})

\* C32: a streaming turn reads its previous response_id and builds its
\* history while none of its own messages is in the store, both come from
\* the messages of other turns only, and the history is not changed afterwards.
C32_HistoryReadBeforeOwnTurn ==
    [][\A r \in Reqs :
         rq[r].kind = "stream" =>
            /\ (rq[r].pc = "last_response_id" /\ rq[r].pc' = "history") =>
                  /\ Persisted(r, "user") = {} /\ Persisted(r, "assistant") = {}
                  /\ rq[r].previous_response_id' =
                        last_response_id(select_conversation(Others(r), rq[r].conversation_id))
            /\ (rq[r].pc = "history" /\ rq[r].pc' \notin {"history", "done"}) =>
                  /\ Persisted(r, "user") = {} /\ Persisted(r, "assistant") = {}
                  /\ rq[r].history_text' =
                        history_of(select_conversation(Others(r), rq[r].conversation_id))
            /\ rq[r].pc # "history" =>
                  /\ rq[r].history_text' = rq[r].history_text
                  /\ rq[r].pc' # "history" =>
                        rq[r].previous_response_id' = rq[r].previous_response_id]_vars

C32_Witness ==
    \E r \in Reqs :
        /\ rq[r].kind = "stream" /\ Success(r)
        /\ rq[r].history_text # <<>>
        /\ Truthy(rq[r].previous_response_id)
        /\ Persisted(r, "user") # {} /\ Persisted(r, "assistant") # {}

====
